---- MODULE Spec2Model ----
(***************************************************************************)
(* Model of the speech pipeline of the multilingual voice translation      *)
(* backend: app/services/speech_service.py (SpeechService.voice_to_text,   *)
(* SpeechService.text_to_speech and the two language-code mappers), the    *)
(* request schemas of app/models/schemas.py and the route handlers of      *)
(* app/api/routes.py that call the service.                                *)
(*                                                                         *)
(* Numbers: speeds and confidences are floats in the source; here they are *)
(* integers in hundredths (0.8 is 80, 0.85 is 85).  Audio lengths are in   *)
(* milliseconds, as pydub's len(audio).                                    *)
(*                                                                         *)
(* External libraries (base64, tempfile, pydub/ffmpeg, speech_recognition, *)
(* gTTS) are the environment: every call to one of them is a step whose    *)
(* outcome (a value or an exception) is chosen nondeterministically.       *)
(***************************************************************************)
EXTENDS Integers, Sequences, FiniteSets, TLC

VARIABLES
    pc,          \* position of the (single, sequential) event loop
    served,      \* number of requests received so far
    req,         \* the request being handled
    response,    \* the HTTP response of the last handled request
    fs,          \* the filesystem: path -> content, for the files that exist
    nextId,      \* source of fresh uuid4 identifiers
    language,    \* service argument: language
    voice_speed, \* service argument: voice_speed
    temp,        \* temp_file_path / temp_audio_path of the running call
    created,     \* every temporary path the running call has created
    fmtIdx,      \* index of the format candidate the decode loop is at
    segment,     \* audio_segment / audio of the running call
    exc,         \* exception in flight inside the service ("none" if none)
    log,         \* calls the running service call made to the backends
    result,      \* what the service call returned or raised
    mapIn,       \* mapper check: the language code under test
    mapOut,      \* mapper check: results observed, per mapper
    issued       \* every (audio_url, duration) returned to a client so far

vars == <<pc, served, req, response, fs, nextId, language, voice_speed, temp,
          created, fmtIdx, segment, exc, log, result, mapIn, mapOut, issued>>

svcVars == <<fs, nextId, language, voice_speed, temp, created, fmtIdx,
             segment, exc, log, result>>

mapVars == <<mapIn, mapOut, issued>>

(***************************************************************************)
(* Bounds of the model.                                                    *)
(***************************************************************************)
\* Requests handled in one behaviour.
MaxRequests == 2
\* Times each mapper is applied to the code under test in the mapper check.
MaxApply == 2

(***************************************************************************)
(* Program constants.                                                      *)
(***************************************************************************)
\* speech_service.py:113  confidence = 0.85
PrimaryConfidence == 85
\* speech_service.py:119  confidence = 0.7
OfflineConfidence == 70
\* speech_service.py:173  slow=(voice_speed < 0.8); :192 voice_speed >= 0.8
SlowThreshold == 80
\* speech_service.py:183  voice_speed != 1.0
UnitSpeed == 100
\* schemas.py:78  Field(1.0, ge=0.5, le=2.0)
DefaultSpeed == 100
MinSpeed == 50
MaxSpeed == 200
\* schemas.py:76  min_length=1, max_length=5000
MinTextLen == 1
MaxTextLen == 5000
\* schemas.py:47, 77  min_length=2, max_length=5
MinLangLen == 2
MaxLangLen == 5

(***************************************************************************)
(* Dictionaries.                                                           *)
(***************************************************************************)
\* dict.get(key, default)
DictGet(d, k, default) == IF k \in DOMAIN d THEN d[k] ELSE default

\* config.py:30-52  Settings.supported_languages (the keys)
supported_languages ==
    {"en", "hi", "kn", "ta", "te", "ml", "bn", "gu", "mr", "pa", "ur",
     "es", "fr", "de", "it", "pt", "ru", "ja", "ko", "zh", "ar"}

\* speech_service.py:230-252
recognition_mapping ==
    [c \in {"en", "hi", "kn", "ta", "te", "ml", "bn", "gu", "mr", "pa", "ur",
            "es", "fr", "de", "it", "pt", "ru", "ja", "ko", "zh", "ar"} |->
       CASE c = "en" -> "en-US" [] c = "hi" -> "hi-IN" [] c = "kn" -> "kn-IN"
         [] c = "ta" -> "ta-IN" [] c = "te" -> "te-IN" [] c = "ml" -> "ml-IN"
         [] c = "bn" -> "bn-IN" [] c = "gu" -> "gu-IN" [] c = "mr" -> "mr-IN"
         [] c = "pa" -> "pa-IN" [] c = "ur" -> "ur-PK" [] c = "es" -> "es-ES"
         [] c = "fr" -> "fr-FR" [] c = "de" -> "de-DE" [] c = "it" -> "it-IT"
         [] c = "pt" -> "pt-PT" [] c = "ru" -> "ru-RU" [] c = "ja" -> "ja-JP"
         [] c = "ko" -> "ko-KR" [] c = "zh" -> "zh-CN" [] c = "ar" -> "ar-SA"]

\* speech_service.py:268-279
tts_mapping ==
    [c \in {"kn", "ta", "te", "ml", "bn", "gu", "mr", "pa", "ur", "zh"} |->
       IF c = "zh" THEN "zh-cn" ELSE c]

\* Mutant: an unknown code passes through instead of defaulting to en-US.
RecognitionPassThrough(lang) == DictGet(recognition_mapping, lang, lang)

\* speech_service.py:254  recognition_mapping.get(language, "en-US")
GetRecognitionLanguageCode(lang) == DictGet(recognition_mapping, lang, "en-US")

\* Mutant: indexing the table instead of .get: a code with no entry is a KeyError.
TtsIndexed(lang) == DictGet(tts_mapping, lang, "KeyError")

\* speech_service.py:281  tts_mapping.get(language, language)
GetTtsLanguageCode(lang) == DictGet(tts_mapping, lang, lang)

(***************************************************************************)
(* Inputs.                                                                 *)
(***************************************************************************)
\* Language codes a request may carry: supported ones (with and without a
\* tts_mapping entry that changes the code), an unsupported one of legal
\* length, and one the schema rejects for its length.
ReqLanguages == {"en", "hi", "zh", "xx", "e"}

\* The language form field of an upload: absent, or one of some codes.
UploadLanguages ==
    {[given |-> FALSE, v |-> ""]} \cup {[given |-> TRUE, v |-> l] : l \in {"hi", "xx", "e"}}

\* The content type of an uploaded file: None, or a string given by its
\* parts, the first part reaching up to and including the first '/'.
ContentTypes ==
    {[isNone |-> TRUE, v |-> <<>>]}
    \cup {[isNone |-> FALSE, v |-> t] :
            t \in {<<>>, <<"audio/", "wav">>, <<"text/", "plain">>,
                   <<"application/", "audio">>}}

\* File names asked of GET /audio/{filename}.
AudioNames ==
    {[stem |-> 0, suffix |-> ".mp3"], [stem |-> 1, suffix |-> ".mp3"],
     [stem |-> 0, suffix |-> ".wav"]}

\* Lengths of the text field of a request.
TextLens == {0, 1, MaxTextLen + 1}

\* The voice_speed field of a request: absent, JSON null, or a number.
SpeedProbes == {49, 50, 79, 80, 100, 150, 200, 201}

Speeds ==
    {[given |-> "omitted", v |-> 0], [given |-> "null", v |-> 0]}
    \cup {[given |-> "value", v |-> s] : s \in SpeedProbes}

\* Lengths (ms) of the clip the synthesis backend produces.
ClipLens == {600, 1200}

\* Codes the mappers are checked on: every supported code and some others.
MapCodes == supported_languages \cup {"xx", "zh-TW", "EN", ""}

(***************************************************************************)
(* Filesystem.                                                             *)
(***************************************************************************)
Path(dir, stem, suffix) == [dir |-> dir, stem |-> stem, suffix |-> suffix]

Content(kind, len) == [kind |-> kind, len |-> len]

Exists(files, p) == p \in DOMAIN files

WriteFile(files, p, c) ==
    [q \in (DOMAIN files) \cup {p} |-> IF q = p THEN c ELSE files[q]]

\* os.unlink
Unlink(files, p) == [q \in (DOMAIN files) \ {p} |-> files[q]]

\* tempfile.NamedTemporaryFile(suffix=..., delete=False): a name no existing
\* file has.  The least unused stem is taken.
FreshStem(files) ==
    CHOOSE n \in 0..Cardinality(DOMAIN files) :
        /\ \A p \in DOMAIN files : ~(p.dir = "tmp" /\ p.stem = n)
        /\ \A m \in 0..(n - 1) :
              \E p \in DOMAIN files : p.dir = "tmp" /\ p.stem = m

\* str.replace('.wav', '.raw') on a temporary path (the random stem holds no dot)
ReplaceSuffix(p, old, new) ==
    IF p.suffix = old THEN [p EXCEPT !.suffix = new] ELSE p

RawPath(p) == ReplaceSuffix(p, ".wav", ".raw")

\* no file name
NoFilename == [stem |-> 0, suffix |-> ""]

\* speech_service.py:163  audio_filename = f"{audio_id}.mp3"
AudioFilename(id) == [stem |-> id, suffix |-> ".mp3"]

\* Mutant: every call writes its artifact under one fixed name.
AudioPathFixed(id) == Path("audio", 0, ".mp3")

\* os.path.join(self.audio_output_dir, f"{audio_id}.mp3")
AudioPath(id) == Path("audio", AudioFilename(id).stem, AudioFilename(id).suffix)

\* speech_service.py:210  relative_path = f"/api/v1/audio/{audio_filename}",
\* as the pair of the route's prefix and the file name
RelativePath(filename) == <<"/api/v1/audio/", filename>>

\* routes.py:23, 234  the {filename} of a URL that GET /api/v1/audio/{filename}
\* matches
RouteFilename(url) ==
    IF Len(url) = 2 /\ url[1] = "/api/v1/audio/" THEN url[2] ELSE NoFilename

\* routes.py:241  os.path.join("app/static/audio", filename)
ServedPath(filename) == Path("audio", filename.stem, filename.suffix)

(***************************************************************************)
(* Exceptions and results.                                                 *)
(***************************************************************************)
Exc(cls, msg) == [cls |-> cls, msg |-> msg]

NoExc == Exc("none", <<>>)

NoPath == Path("none", 0, "")

NoSegment == [none |-> TRUE, len |-> 0, fmt |-> "", scaled |-> <<>>]

NoResult == [kind |-> "none", cls |-> "", msg |-> <<>>, text |-> "",
             confidence |-> 0, url |-> NoPath, duration |-> 0, link |-> <<>>]

Raised(e) == [NoResult EXCEPT !.kind = "raise", !.cls = e.cls, !.msg = e.msg]

NoResponse == [status |-> 0, detail |-> <<>>, body |-> NoResult]

NoContentType == [isNone |-> TRUE, v |-> <<>>]

NoReq == [endpoint |-> "none", text |-> 0, language |-> "", b64ok |-> TRUE,
          speed |-> [given |-> "omitted", v |-> 0],
          ctype |-> NoContentType, filename |-> NoFilename]

NoSpeed == [isNone |-> TRUE, v |-> 0]

LogEntry(op, a, n, out) == [op |-> op, a |-> a, n |-> n, out |-> out]

(***************************************************************************)
(* Request schemas (pydantic) and boundary checks.                         *)
(***************************************************************************)
\* schemas.py:47, 77  language: Field(..., min_length=2, max_length=5)
LanguageFieldValid(lang) == Len(lang) >= MinLangLen /\ Len(lang) <= MaxLangLen

\* schemas.py:76  text: Field(..., min_length=1, max_length=5000)
TextFieldValid(n) == n >= MinTextLen /\ n <= MaxTextLen

\* Mutant: the upper bound of voice_speed is not validated.
SpeedFieldNoUpper(s) == s.given # "value" \/ s.v >= MinSpeed

\* schemas.py:78  voice_speed: Optional[float] = Field(1.0, ge=0.5, le=2.0)
\* (null is a valid Optional; the bounds constrain a number)
SpeedFieldValid(s) == s.given # "value" \/ (s.v >= MinSpeed /\ s.v <= MaxSpeed)

\* schemas.py:78  the value the validated model holds: the default when omitted
SpeedFieldValue(s) ==
    CASE s.given = "omitted" -> [isNone |-> FALSE, v |-> DefaultSpeed]
      [] s.given = "null" -> [isNone |-> TRUE, v |-> 0]
      [] OTHER -> [isNone |-> FALSE, v |-> s.v]

\* routes.py:147  language: str = Form(default="en")
FormLanguage(l) == IF l.given THEN l.v ELSE "en"

\* routes.py:159  not (not audio.content_type or
\* not audio.content_type.startswith('audio/'))
AudioContentType(ct) == ~ct.isNone /\ ct.v # <<>> /\ ct.v[1] = "audio/"

\* Mutant: an HTTPException raised in a handler is caught by the catch-all
\* and answered as 500.
ConvertHTTPException(r) == [r EXCEPT !.status = 500]

\* routes.py:131-132, 185-186, 224-225, 255-256  except HTTPException: raise
PassHTTPException(r) == r

\* routes.py:113, 204  request.language not in settings.supported_languages
Supported(lang) == lang \in supported_languages

\* The per-call state of the service, as a new call finds it.
ResetCall ==
    /\ temp' = NoPath
    /\ created' = {}
    /\ fmtIdx' = 0
    /\ segment' = NoSegment
    /\ exc' = NoExc
    /\ log' = <<>>
    /\ result' = NoResult

(***************************************************************************)
(* SpeechService.voice_to_text                                             *)
(***************************************************************************)
\* speech_service.py:60  the format candidates, in the order they are tried
Formats == <<"m4a", "mp3", "wav", "ogg", "webm">>

\* Mutant: each candidate of the decode loop reads a file of its own.
CandidateFileOwn(p, idx) == [p EXCEPT !.suffix = Formats[idx]]

\* speech_service.py:62-76  the file candidate idx of the decode loop reads:
\* temp_file_path.replace('.wav', '.raw') in every branch
CandidateFile(p, idx) == RawPath(p)

\* Lengths (ms) a decoded segment may have; 0 is a segment of no duration.
SegmentLens == {0, 1000}

\* speech_service.py:82  `if audio_segment:` (None is falsy, and so is an
\* AudioSegment of length 0: the class defines __len__ and no __bool__)
Truthy(seg) == ~seg.none /\ seg.len # 0

\* Mutant: the fallback handler also catches UnknownValueError.
FallbackCatchesAll(e) == e.cls \in {"RequestError", "UnknownValueError"}

\* speech_service.py:115  except sr.RequestError
FallbackCatches(e) == e.cls = "RequestError"

\* Mutant: cleanup forgets the derived .raw file.
CleanupWavOnly(p) == {p}

\* speech_service.py:128  the paths the finally block removes
CleanupPaths(p) == {p, RawPath(p)}

\* Mutant: no dedicated handler for UnknownValueError.
\* Mutant: every exception in flight is reported as unintelligible audio.
OuterHandlerUnintelligible(e) == Exc("Exception", <<"Could not understand the audio">>)

OuterHandlerGeneric(e) ==
    Exc("Exception", <<"Voice to text conversion failed: ">> \o e.msg)

\* speech_service.py:135-141  the outer except clauses of voice_to_text
OuterHandler(e) ==
    CASE e.cls = "UnknownValueError" ->
            Exc("Exception", <<"Could not understand the audio">>)
      [] e.cls = "RequestError" ->
            Exc("Exception", <<"Speech recognition service error: ">> \o e.msg)
      [] OTHER ->
            Exc("Exception", <<"Voice to text conversion failed: ">> \o e.msg)

\* routes.py:109-123  POST /voice-to-text up to the call of the service
ReceiveVoiceToText ==
    /\ pc = "idle"
    /\ served < MaxRequests
    /\ \E lang \in ReqLanguages, ok \in BOOLEAN :
          /\ req' = [NoReq EXCEPT !.endpoint = "voice-to-text",
                                  !.language = lang, !.b64ok = ok]
          /\ served' = served + 1
          /\ ResetCall
          /\ UNCHANGED <<fs, nextId, voice_speed, mapIn, mapOut, issued>>
          /\ IF ~LanguageFieldValid(lang)
             THEN /\ response' = [NoResponse EXCEPT !.status = 422]
                  /\ pc' = "idle"
                  /\ UNCHANGED language
             ELSE IF ~Supported(lang)
             THEN /\ response' = PassHTTPException([NoResponse EXCEPT !.status = 400,
                                     !.detail = <<"Unsupported language: ", lang>>])
                  /\ pc' = "idle"
                  /\ UNCHANGED language
             ELSE /\ response' = NoResponse
                  /\ language' = lang
                  /\ pc' = "v_decode"

\* speech_service.py:45  base64.b64decode(audio_data)
V_B64Decode ==
    /\ pc = "v_decode"
    /\ IF req.b64ok
       THEN /\ pc' = "v_mktemp"
            /\ UNCHANGED result
       ELSE /\ result' = Raised(OuterHandler(Exc("binascii.Error", <<"Incorrect padding">>)))
            /\ pc' = "v_done"
    /\ UNCHANGED <<served, req, response, fs, nextId, language, voice_speed,
                   temp, created, fmtIdx, segment, exc, log, mapIn, mapOut, issued>>

\* speech_service.py:48-49  the temporary .wav file
V_MkTemp ==
    /\ pc = "v_mktemp"
    /\ temp' = Path("tmp", FreshStem(fs), ".wav")
    /\ fs' = WriteFile(fs, temp', Content("empty", 0))
    /\ created' = {temp'}
    /\ pc' = "v_rawwrite"
    /\ UNCHANGED <<served, req, response, nextId, language, voice_speed,
                   fmtIdx, segment, exc, log, result, mapIn, mapOut, issued>>

\* speech_service.py:55-56  the raw bytes saved to the derived .raw path; a
\* failure is caught at line 90 and may or may not leave the file behind
V_WriteRaw ==
    /\ pc = "v_rawwrite"
    /\ \/ /\ fs' = WriteFile(fs, RawPath(temp), Content("raw", 0))
          /\ created' = created \cup {RawPath(temp)}
          /\ fmtIdx' = 1
          /\ pc' = "v_loop"
       \/ /\ fs' = WriteFile(fs, RawPath(temp), Content("partial", 0))
          /\ created' = created \cup {RawPath(temp)}
          /\ fmtIdx' = 0
          /\ pc' = "v_fallback"
       \/ /\ UNCHANGED <<fs, created>>
          /\ fmtIdx' = 0
          /\ pc' = "v_fallback"
    /\ UNCHANGED <<served, req, response, nextId, language, voice_speed, temp,
                   segment, exc, log, result, mapIn, mapOut, issued>>

\* a decode loop without the break of line 78: a success is recorded and the
\* loop goes on to the next candidate
V_TryFormatNoBreak ==
    /\ pc = "v_loop"
    /\ fmtIdx \in 1..Len(Formats)
    /\ \/ \E n \in SegmentLens :
            /\ Exists(fs, CandidateFile(temp, fmtIdx))
            /\ segment' = [none |-> FALSE, len |-> n, fmt |-> Formats[fmtIdx],
                           scaled |-> <<>>]
            /\ log' = Append(log, LogEntry("decode", Formats[fmtIdx], fmtIdx, "ok"))
       \/ /\ log' = Append(log, LogEntry("decode", Formats[fmtIdx], fmtIdx, "error"))
          /\ UNCHANGED segment
    /\ fmtIdx' = fmtIdx + 1
    /\ pc' = IF fmtIdx = Len(Formats) THEN "v_convert" ELSE "v_loop"
    /\ UNCHANGED <<served, req, response, fs, nextId, language, voice_speed,
                   temp, created, exc, result, mapIn, mapOut, issued>>

\* speech_service.py:60-80  one candidate of the decode loop: success breaks
\* out of the loop, failure continues with the next candidate
V_TryFormat ==
    /\ pc = "v_loop"
    /\ fmtIdx \in 1..Len(Formats)
    /\ \/ \E n \in SegmentLens :
            /\ Exists(fs, CandidateFile(temp, fmtIdx))
            /\ segment' = [none |-> FALSE, len |-> n, fmt |-> Formats[fmtIdx],
                           scaled |-> <<>>]
            /\ log' = Append(log, LogEntry("decode", Formats[fmtIdx], fmtIdx, "ok"))
            /\ pc' = "v_convert"
            /\ UNCHANGED fmtIdx
       \/ /\ log' = Append(log, LogEntry("decode", Formats[fmtIdx], fmtIdx, "error"))
          /\ fmtIdx' = fmtIdx + 1
          /\ pc' = IF fmtIdx = Len(Formats) THEN "v_convert" ELSE "v_loop"
          /\ UNCHANGED segment
    /\ UNCHANGED <<served, req, response, fs, nextId, language, voice_speed,
                   temp, created, exc, result, mapIn, mapOut, issued>>

\* a strict decoder: when no candidate gave a usable segment the call fails
\* instead of writing the raw bytes as the .wav file
V_ConvertStrict ==
    /\ pc = "v_convert"
    /\ IF Truthy(segment)
       THEN /\ fs' = WriteFile(fs, temp, Content("wav", segment.len))
            /\ log' = Append(log, LogEntry("export", "", 0, "ok"))
            /\ pc' = "v_input"
            /\ UNCHANGED exc
       ELSE /\ exc' = Exc("Exception", <<"Unsupported audio format">>)
            /\ pc' = "v_finally"
            /\ UNCHANGED <<fs, log>>
    /\ UNCHANGED <<served, req, response, nextId, language, voice_speed, temp,
                   created, fmtIdx, segment, result, mapIn, mapOut, issued>>

\* speech_service.py:82-88  export of the decoded segment, or the raw bytes
\* written as the .wav file; a failure of either is caught at line 90
V_Convert ==
    /\ pc = "v_convert"
    /\ \/ /\ fs' = WriteFile(fs, temp,
                     IF Truthy(segment) THEN Content("wav", segment.len)
                                        ELSE Content("raw", 0))
          /\ log' = Append(log, LogEntry(IF Truthy(segment) THEN "export" ELSE "write_raw",
                                         "", 0, "ok"))
          /\ pc' = "v_input"
       \/ /\ \E c \in {fs[temp], Content("partial", 0)} : fs' = WriteFile(fs, temp, c)
          /\ log' = Append(log, LogEntry(IF Truthy(segment) THEN "export" ELSE "write_raw",
                                         "", 0, "error"))
          /\ pc' = "v_fallback"
    /\ UNCHANGED <<served, req, response, nextId, language, voice_speed, temp,
                   created, fmtIdx, segment, exc, result, mapIn, mapOut, issued>>

\* speech_service.py:90-94  the conversion_error handler: the raw bytes are
\* written as the .wav file; a failure here leaves the inner try
V_Fallback ==
    /\ pc = "v_fallback"
    /\ \/ /\ fs' = WriteFile(fs, temp, Content("raw", 0))
          /\ log' = Append(log, LogEntry("write_raw", "", 0, "ok"))
          /\ pc' = "v_input"
          /\ UNCHANGED exc
       \/ /\ \E c \in {fs[temp], Content("partial", 0)} : fs' = WriteFile(fs, temp, c)
          /\ log' = Append(log, LogEntry("write_raw", "", 0, "error"))
          /\ exc' = Exc("OSError", <<"write failed">>)
          /\ pc' = "v_finally"
    /\ UNCHANGED <<served, req, response, nextId, language, voice_speed, temp,
                   created, fmtIdx, segment, result, mapIn, mapOut, issued>>

\* speech_service.py:97-101  the recognizer's input stage: sr.AudioFile opens
\* the .wav file, ambient noise is adjusted for, the audio is recorded
V_Input ==
    /\ pc = "v_input"
    /\ \/ /\ log' = Append(log, LogEntry("input", fs[temp].kind, fs[temp].len, "ok"))
          /\ pc' = "v_google"
          /\ UNCHANGED exc
       \/ /\ log' = Append(log, LogEntry("input", fs[temp].kind, fs[temp].len, "error"))
          /\ exc' = Exc("ValueError", <<"Audio file could not be read">>)
          /\ pc' = "v_finally"
    /\ UNCHANGED <<served, req, response, fs, nextId, language, voice_speed,
                   temp, created, fmtIdx, segment, result, mapIn, mapOut, issued>>

\* speech_service.py:104-115  the primary backend, called with the mapped
\* locale; RequestError alone is caught and leads to the offline backend
V_Google ==
    /\ pc = "v_google"
    /\ \/ /\ log' = Append(log, LogEntry("recognize_google",
                                  GetRecognitionLanguageCode(language), 0, "ok"))
          /\ result' = [NoResult EXCEPT !.kind = "pending", !.text = "primary text",
                                        !.confidence = PrimaryConfidence]
          /\ pc' = "v_finally"
          /\ UNCHANGED exc
       \/ \E e \in {Exc("UnknownValueError", <<>>),
                    Exc("RequestError", <<"recognition connection failed">>)} :
            /\ log' = Append(log, LogEntry("recognize_google",
                                    GetRecognitionLanguageCode(language), 0, e.cls))
            /\ UNCHANGED result
            /\ IF FallbackCatches(e)
               THEN pc' = "v_sphinx" /\ UNCHANGED exc
               ELSE pc' = "v_finally" /\ exc' = e
    /\ UNCHANGED <<served, req, response, fs, nextId, language, voice_speed,
                   temp, created, fmtIdx, segment, mapIn, mapOut, issued>>

\* speech_service.py:117-121  the offline backend, called with no language;
\* its RequestError becomes Exception("Speech recognition service unavailable")
V_Sphinx ==
    /\ pc = "v_sphinx"
    /\ \/ /\ log' = Append(log, LogEntry("recognize_sphinx", "", 0, "ok"))
          /\ result' = [NoResult EXCEPT !.kind = "pending", !.text = "offline text",
                                        !.confidence = OfflineConfidence]
          /\ UNCHANGED exc
       \/ /\ log' = Append(log, LogEntry("recognize_sphinx", "", 0, "UnknownValueError"))
          /\ exc' = Exc("UnknownValueError", <<>>)
          /\ UNCHANGED result
       \/ /\ log' = Append(log, LogEntry("recognize_sphinx", "", 0, "RequestError"))
          /\ exc' = Exc("Exception", <<"Speech recognition service unavailable">>)
          /\ UNCHANGED result
    /\ pc' = "v_finally"
    /\ UNCHANGED <<served, req, response, fs, nextId, language, voice_speed,
                   temp, created, fmtIdx, segment, mapIn, mapOut, issued>>

RECURSIVE UnlinkAll(_, _)
\* speech_service.py:128-133  os.unlink of each cleanup path that exists
UnlinkAll(files, paths) ==
    IF paths = {} THEN files
    ELSE LET p == CHOOSE q \in paths : TRUE
         IN UnlinkAll(IF Exists(files, p) THEN Unlink(files, p) ELSE files,
                      paths \ {p})

\* speech_service.py:124-141  the finally block, then the return of
\* (text, confidence) or the outer except clause of the exception in flight
V_Finally ==
    /\ pc = "v_finally"
    /\ fs' = UnlinkAll(fs, CleanupPaths(temp))
    /\ result' = IF exc = NoExc THEN [result EXCEPT !.kind = "return"]
                                ELSE Raised(OuterHandler(exc))
    /\ pc' = "v_done"
    /\ UNCHANGED <<served, req, response, nextId, language, voice_speed, temp,
                   created, fmtIdx, segment, exc, log, mapIn, mapOut, issued>>

\* routes.py:125-138  the response of POST /voice-to-text: the service's
\* result as 200, or its exception as 500
RespondVoiceToText ==
    /\ pc = "v_done"
    /\ req.endpoint = "voice-to-text"
    /\ response' = IF result.kind = "return"
                   THEN [NoResponse EXCEPT !.status = 200, !.body = result]
                   ELSE [NoResponse EXCEPT !.status = 500,
                            !.detail = <<"Voice to text conversion failed: ">> \o result.msg]
    /\ pc' = "idle"
    /\ UNCHANGED <<served, req, fs, nextId, language, voice_speed, temp,
                   created, fmtIdx, segment, exc, log, result, mapIn, mapOut, issued>>

\* routes.py:145-175  POST /speech-to-text up to the call of the service: the
\* language and the content type are checked, the file is read and encoded
\* as base64 (which the service's b64decode always accepts)
ReceiveSpeechToText ==
    /\ pc = "idle"
    /\ served < MaxRequests
    /\ \E l \in UploadLanguages, ct \in ContentTypes :
          /\ req' = [NoReq EXCEPT !.endpoint = "speech-to-text",
                                  !.language = FormLanguage(l), !.ctype = ct]
          /\ served' = served + 1
          /\ ResetCall
          /\ UNCHANGED <<fs, nextId, voice_speed, mapIn, mapOut, issued>>
          /\ IF ~Supported(FormLanguage(l))
             THEN /\ response' = PassHTTPException([NoResponse EXCEPT !.status = 400,
                                     !.detail = <<"Unsupported language: ", FormLanguage(l)>>])
                  /\ pc' = "idle"
                  /\ UNCHANGED language
             ELSE IF ~AudioContentType(ct)
             THEN /\ response' = PassHTTPException([NoResponse EXCEPT !.status = 400,
                                     !.detail = <<"File must be an audio file">>])
                  /\ pc' = "idle"
                  /\ UNCHANGED language
             ELSE /\ response' = NoResponse
                  /\ language' = FormLanguage(l)
                  /\ pc' = "v_decode"

\* routes.py:177-192  the response of POST /speech-to-text
RespondSpeechToText ==
    /\ pc = "v_done"
    /\ req.endpoint = "speech-to-text"
    /\ response' = IF result.kind = "return"
                   THEN [NoResponse EXCEPT !.status = 200, !.body = result]
                   ELSE [NoResponse EXCEPT !.status = 500,
                            !.detail = <<"Speech to text conversion failed: ">> \o result.msg]
    /\ pc' = "idle"
    /\ UNCHANGED <<served, req, fs, nextId, language, voice_speed, temp,
                   created, fmtIdx, segment, exc, log, result, mapIn, mapOut, issued>>

(***************************************************************************)
(* SpeechService.text_to_speech                                            *)
(***************************************************************************)
\* speech_service.py:173  slow=(voice_speed < 0.8)
Slow(v) == v < SlowThreshold

\* Mutant: every speed other than 1.0 is tempo-scaled, the slow ones too.
AppliesSpeedupAlways(v) == v # UnitSpeed

\* Mutant: 0.8 itself is not tempo-scaled.
AppliesSpeedupAbove(v) ==
    v # UnitSpeed /\ (v > UnitSpeed \/ (v < UnitSpeed /\ v > SlowThreshold))

\* speech_service.py:183-193  the speeds for which audio.speedup is called
AppliesSpeedup(v) ==
    v # UnitSpeed /\ (v > UnitSpeed \/ (v < UnitSpeed /\ v >= SlowThreshold))

\* speech_service.py:189, 193  audio.speedup(playback_speed=voice_speed): the
\* clip's length divided by the factor (pydub, taken at its nominal effect)
Speedup(seg, factor) ==
    [seg EXCEPT !.len = (seg.len * 100) \div factor,
                !.scaled = Append(seg.scaled, factor)]

\* speech_service.py:197, 202  duration = len(audio) / 1000.0 (kept in ms)
Duration(seg) == seg.len

\* routes.py:200-215  POST /text-to-speech up to the call of the service
ReceiveTextToSpeech ==
    /\ pc = "idle"
    /\ served < MaxRequests
    /\ \E lang \in ReqLanguages, n \in TextLens, s \in Speeds :
          /\ req' = [NoReq EXCEPT !.endpoint = "text-to-speech", !.text = n,
                                  !.language = lang, !.speed = s]
          /\ served' = served + 1
          /\ ResetCall
          /\ UNCHANGED <<fs, nextId, mapIn, mapOut, issued>>
          /\ IF ~(TextFieldValid(n) /\ LanguageFieldValid(lang) /\ SpeedFieldValid(s))
             THEN /\ response' = [NoResponse EXCEPT !.status = 422]
                  /\ pc' = "idle"
                  /\ UNCHANGED <<language, voice_speed>>
             ELSE IF ~Supported(lang)
             THEN /\ response' = PassHTTPException([NoResponse EXCEPT !.status = 400,
                                     !.detail = <<"Unsupported language: ", lang>>])
                  /\ pc' = "idle"
                  /\ UNCHANGED <<language, voice_speed>>
             ELSE /\ response' = NoResponse
                  /\ language' = lang
                  /\ voice_speed' = SpeedFieldValue(s)
                  /\ pc' = "t_init"

\* speech_service.py:162-174  the fresh identifier, the mapped language and
\* the gTTS object (logged with n = 1 for slow=True, 0 for slow=False);
\* comparing None with 0.8 is a TypeError, and gTTS may refuse its arguments;
\* both are caught at line 215.  result.url holds audio_path from here on.
T_Init ==
    /\ pc = "t_init"
    /\ nextId' = nextId + 1
    /\ IF voice_speed.isNone
       THEN /\ result' = Raised(Exc("Exception",
                           <<"Text to speech conversion failed: ", "'<' not supported">>))
            /\ pc' = "t_done"
            /\ UNCHANGED log
       ELSE \/ /\ log' = Append(log, LogEntry("gTTS", GetTtsLanguageCode(language),
                                   IF Slow(voice_speed.v) THEN 1 ELSE 0, "ok"))
               /\ result' = [NoResult EXCEPT !.kind = "pending", !.url = AudioPath(nextId)]
               /\ pc' = "t_save"
            \/ /\ log' = Append(log, LogEntry("gTTS", GetTtsLanguageCode(language),
                                   IF Slow(voice_speed.v) THEN 1 ELSE 0, "error"))
               /\ result' = Raised(Exc("Exception",
                           <<"Text to speech conversion failed: ", "Language not supported">>))
               /\ pc' = "t_done"
    /\ UNCHANGED <<served, req, response, fs, language, voice_speed, temp,
                   created, fmtIdx, segment, exc, mapIn, mapOut, issued>>

\* speech_service.py:177-179  the temporary .mp3 file is created, and
\* tts.save writes the clip into it.  temp_audio_path is assigned after
\* tts.save, and the try/finally that removes the file starts at line 181:
\* an exception of tts.save goes straight to the handler at line 215.
T_Save ==
    /\ pc = "t_save"
    /\ LET p == Path("tmp", FreshStem(fs), ".mp3")
       IN /\ created' = {p}
          /\ \/ \E n \in ClipLens :
                  /\ fs' = WriteFile(fs, p, Content("mp3", n))
                  /\ log' = Append(log, LogEntry("save", "", n, "ok"))
                  /\ temp' = p
                  /\ pc' = "t_load"
                  /\ UNCHANGED result
             \/ /\ fs' = WriteFile(fs, p, Content("partial", 0))
                  /\ log' = Append(log, LogEntry("save", "", 0, "error"))
                  /\ result' = Raised(Exc("Exception",
                           <<"Text to speech conversion failed: ", "gTTSError">>))
                  /\ pc' = "t_done"
                  /\ UNCHANGED temp
    /\ UNCHANGED <<served, req, response, nextId, language, voice_speed,
                   fmtIdx, segment, exc, mapIn, mapOut, issued>>

\* speech_service.py:183-184, 200  AudioSegment.from_mp3(temp_audio_path),
\* in both branches of `if voice_speed != 1.0`
T_Load ==
    /\ pc = "t_load"
    /\ \/ /\ segment' = [none |-> FALSE, len |-> fs[temp].len, fmt |-> "mp3",
                         scaled |-> <<>>]
          /\ log' = Append(log, LogEntry("from_mp3", "", fs[temp].len, "ok"))
          /\ pc' = IF AppliesSpeedup(voice_speed.v) THEN "t_scale" ELSE "t_export"
          /\ UNCHANGED exc
       \/ /\ log' = Append(log, LogEntry("from_mp3", "", 0, "error"))
          /\ exc' = Exc("CouldntDecodeError", <<"Decoding failed">>)
          /\ pc' = "t_finally"
          /\ UNCHANGED segment
    /\ UNCHANGED <<served, req, response, fs, nextId, language, voice_speed,
                   temp, created, fmtIdx, result, mapIn, mapOut, issued>>

\* speech_service.py:187-193  audio = audio.speedup(playback_speed=voice_speed)
T_Scale ==
    /\ pc = "t_scale"
    /\ \/ /\ segment' = Speedup(segment, voice_speed.v)
          /\ log' = Append(log, LogEntry("speedup", "", voice_speed.v, "ok"))
          /\ pc' = "t_export"
          /\ UNCHANGED exc
       \/ /\ log' = Append(log, LogEntry("speedup", "", voice_speed.v, "error"))
          /\ exc' = Exc("Exception", <<"Could not speed up AudioSegment">>)
          /\ pc' = "t_finally"
          /\ UNCHANGED segment
    /\ UNCHANGED <<served, req, response, fs, nextId, language, voice_speed,
                   temp, created, fmtIdx, result, mapIn, mapOut, issued>>

\* speech_service.py:196-197, 201-202  audio.export(audio_path, format="mp3")
\* and the duration; a failed export may leave a partial file at audio_path
T_Export ==
    /\ pc = "t_export"
    /\ \/ /\ fs' = WriteFile(fs, result.url, Content("mp3", segment.len))
          /\ log' = Append(log, LogEntry("export", "", segment.len, "ok"))
          /\ result' = [result EXCEPT !.duration = Duration(segment)]
          /\ UNCHANGED exc
       \/ /\ \/ fs' = WriteFile(fs, result.url, Content("partial", 0))
             \/ UNCHANGED fs
          /\ log' = Append(log, LogEntry("export", "", 0, "error"))
          /\ exc' = Exc("CouldntEncodeError", <<"Encoding failed">>)
          /\ UNCHANGED result
    /\ pc' = "t_finally"
    /\ UNCHANGED <<served, req, response, nextId, language, voice_speed, temp,
                   created, fmtIdx, segment, mapIn, mapOut, issued>>

\* speech_service.py:204-217  the finally block removes temp_audio_path if it
\* exists; then (relative_path, duration) is returned, or the exception in
\* flight is raised again as Exception("Text to speech conversion failed: ...")
T_Finally ==
    /\ pc = "t_finally"
    /\ fs' = IF Exists(fs, temp) THEN Unlink(fs, temp) ELSE fs
    /\ result' = IF exc = NoExc
                 THEN [result EXCEPT !.kind = "return",
                         !.link = RelativePath([stem |-> result.url.stem,
                                                suffix |-> result.url.suffix])]
                 ELSE Raised(Exc("Exception",
                        <<"Text to speech conversion failed: ">> \o exc.msg))
    /\ pc' = "t_done"
    /\ UNCHANGED <<served, req, response, nextId, language, voice_speed, temp,
                   created, fmtIdx, segment, exc, log, mapIn, mapOut, issued>>

\* routes.py:217-231  the response of POST /text-to-speech
RespondTextToSpeech ==
    /\ pc = "t_done"
    /\ response' = IF result.kind = "return"
                   THEN [NoResponse EXCEPT !.status = 200, !.body = result]
                   ELSE [NoResponse EXCEPT !.status = 500,
                            !.detail = <<"Text to speech conversion failed: ">> \o result.msg]
    /\ issued' = IF result.kind = "return"
                 THEN Append(issued, [link |-> result.link, duration |-> result.duration])
                 ELSE issued
    /\ pc' = "idle"
    /\ UNCHANGED <<served, req, fs, nextId, language, voice_speed, temp,
                   created, fmtIdx, segment, exc, log, result, mapIn, mapOut>>

\* routes.py:238-262  GET /audio/{filename}: the file of that name in the
\* audio output directory, or 404
GetAudioFile ==
    /\ pc = "idle"
    /\ served < MaxRequests
    /\ \E name \in AudioNames :
          /\ req' = [NoReq EXCEPT !.endpoint = "audio", !.filename = name]
          /\ response' =
                IF ~Exists(fs, ServedPath(name))
                THEN PassHTTPException([NoResponse EXCEPT !.status = 404,
                                           !.detail = <<"Audio file not found">>])
                ELSE [NoResponse EXCEPT !.status = 200,
                         !.body = [NoResult EXCEPT !.kind = "file",
                                      !.url = ServedPath(name),
                                      !.duration = fs[ServedPath(name)].len]]
    /\ served' = served + 1
    /\ ResetCall
    /\ UNCHANGED <<pc, fs, nextId, language, voice_speed, mapIn, mapOut, issued>>

(***************************************************************************)
(* The service behind its routes.                                          *)
(***************************************************************************)
Init ==
    /\ pc = "idle"
    /\ served = 0
    /\ req = NoReq
    /\ response = NoResponse
    /\ fs = <<>>
    /\ nextId = 0
    /\ language = ""
    /\ voice_speed = NoSpeed
    /\ temp = NoPath
    /\ created = {}
    /\ fmtIdx = 0
    /\ segment = NoSegment
    /\ exc = NoExc
    /\ log = <<>>
    /\ result = NoResult
    /\ mapIn = ""
    /\ mapOut = [rec |-> {}, tts |-> {}, nrec |-> 0, ntts |-> 0]
    /\ issued = <<>>

\* Every handler and service method is a coroutine that makes its blocking
\* calls directly (routes.py:109, 145, 200, 238; speech_service.py:28, 143),
\* on the single event loop of main.py:69: a request is received only when no
\* handler is in progress (pc = "idle").
Next ==
    \/ ReceiveVoiceToText
    \/ V_B64Decode
    \/ V_MkTemp
    \/ V_WriteRaw
    \/ V_TryFormat
    \/ V_Convert
    \/ V_Fallback
    \/ V_Input
    \/ V_Google
    \/ V_Sphinx
    \/ V_Finally
    \/ RespondVoiceToText
    \/ ReceiveSpeechToText
    \/ RespondSpeechToText
    \/ ReceiveTextToSpeech
    \/ T_Init
    \/ T_Save
    \/ T_Load
    \/ T_Scale
    \/ T_Export
    \/ T_Finally
    \/ RespondTextToSpeech
    \/ GetAudioFile

Spec == Init /\ [][Next]_vars

(***************************************************************************)
(* The language-code mappers, applied to one code at a time.               *)
(***************************************************************************)
MapInit ==
    /\ Init!1 /\ Init!2 /\ Init!3 /\ Init!4 /\ Init!5 /\ Init!6 /\ Init!7
    /\ Init!8 /\ Init!9 /\ Init!10 /\ Init!11 /\ Init!12 /\ Init!13
    /\ Init!14 /\ Init!15
    /\ mapIn \in MapCodes
    /\ mapOut = [rec |-> {}, tts |-> {}, nrec |-> 0, ntts |-> 0]
    /\ issued = <<>>

\* speech_service.py:219-254  a call of _get_recognition_language_code
ApplyRecognition ==
    /\ mapOut.nrec < MaxApply
    /\ mapOut' = [mapOut EXCEPT !.rec = @ \cup {GetRecognitionLanguageCode(mapIn)},
                                !.nrec = @ + 1]
    /\ UNCHANGED <<pc, served, req, response, mapIn, issued>>
    /\ UNCHANGED svcVars

\* speech_service.py:256-281  a call of _get_tts_language_code
ApplyTts ==
    /\ mapOut.ntts < MaxApply
    /\ mapOut' = [mapOut EXCEPT !.tts = @ \cup {GetTtsLanguageCode(mapIn)},
                                !.ntts = @ + 1]
    /\ UNCHANGED <<pc, served, req, response, mapIn, issued>>
    /\ UNCHANGED svcVars

MapNext == ApplyRecognition \/ ApplyTts

MapSpec == MapInit /\ [][MapNext]_vars

(***************************************************************************)
(* Properties.                                                             *)
(***************************************************************************)
\* The positions in the log of the calls of one operation.
LogAt(op) == {i \in 1..Len(log) : log[i].op = op}

\* The running or last request is a voice_to_text / text_to_speech call.
InVoiceToText == req.endpoint \in {"voice-to-text", "speech-to-text"}

InTextToSpeech == req.endpoint = "text-to-speech"

\* C1: after any text_to_speech call, whether it returned or raised (a
\* failure of tts.save included), the temporary .mp3 file the call created
\* no longer exists.
C1_TempMp3Removed ==
    (InTextToSpeech /\ pc = "t_done") => \A p \in created : ~Exists(fs, p)

\* C2: after any voice_to_text call that created its temporary files, on
\* every exit path, neither the temporary .wav file nor the derived .raw
\* file exists.
C2_TempWavAndRawRemoved ==
    (InVoiceToText /\ pc \in {"v_done", "idle"}) =>
        \A p \in created : ~Exists(fs, p)

\* C2 witness: a call that created both files and failed with both backends
\* unreachable has ended.
C2_Witness ==
    /\ InVoiceToText /\ pc = "v_done"
    /\ Cardinality(created) = 2
    /\ result.kind = "raise"
    /\ \E i \in LogAt("recognize_sphinx") : log[i].out = "RequestError"

\* C3: the offline backend is called only after the primary backend failed
\* as unreachable, no backend is called more than once per call, the offline
\* result is returned with confidence 0.7, strictly below the primary path's
\* 0.85, and every returned confidence lies in [0, 1].
C3_SingleFallback ==
    InVoiceToText =>
        /\ Cardinality(LogAt("recognize_google")) <= 1
        /\ Cardinality(LogAt("recognize_sphinx")) <= 1
        /\ \A i \in LogAt("recognize_sphinx") :
              \E j \in LogAt("recognize_google") :
                  j < i /\ log[j].out = "RequestError"
        /\ (pc = "v_done" /\ result.kind = "return") =>
              /\ result.confidence >= 0 /\ result.confidence <= 100
              /\ IF LogAt("recognize_sphinx") # {}
                 THEN /\ result.text = "offline text"
                      /\ result.confidence = 70
                      /\ result.confidence < PrimaryConfidence
                 ELSE /\ result.text = "primary text"
                      /\ result.confidence = 85

\* C3 witness: the primary was unreachable and the call returned the offline
\* text.
C3_Witness ==
    /\ InVoiceToText /\ pc = "v_done" /\ result.kind = "return"
    /\ \E j \in LogAt("recognize_google") : log[j].out = "RequestError"
    /\ \E i \in LogAt("recognize_sphinx") : log[i].out = "ok"

\* C4: when the primary backend reports no speech (UnknownValueError) the
\* call fails with 'Could not understand the audio', returns no text and
\* never calls the offline backend; the same error results when the offline
\* fallback reports no speech.
C4_Unintelligible ==
    (InVoiceToText /\ pc = "v_done") =>
        /\ (\E j \in LogAt("recognize_google") : log[j].out = "UnknownValueError") =>
              /\ result.kind = "raise"
              /\ result.msg = <<"Could not understand the audio">>
              /\ result.text = ""
              /\ LogAt("recognize_sphinx") = {}
        /\ (\E i \in LogAt("recognize_sphinx") : log[i].out = "UnknownValueError") =>
              /\ result.kind = "raise"
              /\ result.msg = <<"Could not understand the audio">>
              /\ result.text = ""

\* C4 witness: a call whose primary backend reported no speech has ended.
C4_Witness ==
    /\ InVoiceToText /\ pc = "v_done"
    /\ \E j \in LogAt("recognize_google") : log[j].out = "UnknownValueError"

\* The error voice_to_text raises for unintelligible audio (line 136).
UnintelligibleError == OuterHandler(Exc("UnknownValueError", <<>>))

\* C5: when both backends are unreachable the call fails with a
\* service-unavailable error, and that error is of a different kind (class)
\* than the error raised for unintelligible audio.
C5_UnavailableIsDistinctKind ==
    (/\ InVoiceToText /\ pc = "v_done"
     /\ \E j \in LogAt("recognize_google") : log[j].out = "RequestError"
     /\ \E i \in LogAt("recognize_sphinx") : log[i].out = "RequestError") =>
        /\ result.kind = "raise"
        /\ \E k \in 1..Len(result.msg) :
              result.msg[k] = "Speech recognition service unavailable"
        /\ result.cls # UnintelligibleError.cls

\* C6 (as claimed): the recognition mapper returns the table's locale for a
\* code that has an entry and the input code unchanged for one that has none.
C6_UnknownPassesThrough ==
    \A r \in mapOut.rec :
        r = IF mapIn \in DOMAIN recognition_mapping
            THEN recognition_mapping[mapIn] ELSE mapIn

\* C6 (amended): the recognition mapper returns the table's locale for a
\* code that has an entry and "en-US" for every code that has none.
C6_UnknownDefaultsToEnUS ==
    \A r \in mapOut.rec :
        r = IF mapIn \in DOMAIN recognition_mapping
            THEN recognition_mapping[mapIn] ELSE "en-US"

\* C6 witness: the mapper was applied to a code with no entry.
C6_Witness ==
    mapIn \notin DOMAIN recognition_mapping /\ mapOut.nrec > 0 /\ mapOut.rec # {}

\* C7: both mappers return a value without error for every code, the same
\* value on every call; every supported code has a recognition locale; the
\* synthesis mapper returns the table entry when there is one ('zh' gives
\* 'zh-cn') and otherwise the input code itself.
C7_MappersTotalDeterministic ==
    /\ mapOut.nrec > 0 => Cardinality(mapOut.rec) = 1
    /\ mapOut.ntts > 0 => Cardinality(mapOut.tts) = 1
    /\ "KeyError" \notin (mapOut.rec \cup mapOut.tts)
    /\ (mapIn \in supported_languages /\ mapOut.nrec > 0) =>
          mapOut.rec = {recognition_mapping[mapIn]}
    /\ \A r \in mapOut.tts :
          /\ mapIn \in DOMAIN tts_mapping => r = tts_mapping[mapIn]
          /\ mapIn \notin DOMAIN tts_mapping => r = mapIn
          /\ mapIn = "zh" => r = "zh-cn"

\* C7 witness: both mappers were applied twice to 'zh'.
C7_Witness == mapIn = "zh" /\ mapOut.nrec >= 2 /\ mapOut.ntts >= 2

\* A text_to_speech call is running or has ended, with a speed in [lo, hi)
\* hundredths.
SpeedIn(lo, hi) ==
    /\ InTextToSpeech /\ pc # "idle" /\ ~voice_speed.isNone
    /\ voice_speed.v >= lo /\ voice_speed.v < hi

\* C8: for every speed in [0.5, 0.8) text_to_speech requests slow synthesis
\* (slow=True) and applies no tempo scaling to the generated audio.
C8_SlowNoScaling ==
    SpeedIn(50, 80) =>
        /\ \A i \in LogAt("gTTS") : log[i].n = 1
        /\ LogAt("speedup") = {}
        /\ segment.scaled = <<>>
        /\ (pc = "t_done" /\ result.kind = "return") =>
              /\ LogAt("gTTS") # {}
              /\ \E i \in LogAt("save") : log[i].n = fs[result.url].len

\* C8 witness: a call with speed 0.79 has returned.
C8_Witness ==
    SpeedIn(79, 80) /\ pc = "t_done" /\ result.kind = "return"

\* C9: for every speed in [0.8, 2.0] other than 1.0 text_to_speech requests
\* normal synthesis (slow=False) and applies the tempo scaling exactly once
\* with factor = speed; for 1.0 it applies none; the reported duration is the
\* length of the final audio, after any scaling.
C9_ScalingOnce ==
    /\ SpeedIn(80, 201) =>
          /\ \A i \in LogAt("gTTS") : log[i].n = 0
          /\ Cardinality(LogAt("speedup")) <= 1
          /\ \A i \in LogAt("speedup") : log[i].n = voice_speed.v
          /\ voice_speed.v = 100 => (LogAt("speedup") = {} /\ segment.scaled = <<>>)
          /\ (pc = "t_done" /\ result.kind = "return" /\ voice_speed.v # 100) =>
                /\ segment.scaled = <<voice_speed.v>>
                /\ \E i \in LogAt("speedup") : log[i].out = "ok"
    /\ (InTextToSpeech /\ pc = "t_done" /\ result.kind = "return") =>
          /\ Exists(fs, result.url)
          /\ result.duration = fs[result.url].len

\* C9 witness: a call with speed 0.8 has returned.
C9_Witness ==
    SpeedIn(80, 81) /\ pc = "t_done" /\ result.kind = "return"

\* The speed field of the request holds a number outside [0.5, 2.0].
OutOfRange(s) == s.given = "value" /\ (s.v < 50 \/ s.v > 200)

\* The request is otherwise one the boundary accepts.
OtherwiseAccepted ==
    /\ InTextToSpeech
    /\ TextFieldValid(req.text)
    /\ LanguageFieldValid(req.language)
    /\ Supported(req.language)

\* The nearest bound of [0.5, 2.0].
Clamp(v) == IF v < 50 THEN 50 ELSE IF v > 200 THEN 200 ELSE v

\* C10 (as claimed): a request whose speed lies outside [0.5, 2.0] is
\* processed with the nearest bound of that range, and a request that omits
\* speed is processed with speed 1.0.
C10_SpeedClamped ==
    OtherwiseAccepted =>
        /\ OutOfRange(req.speed) =>
              /\ response.status # 422
              /\ voice_speed = [isNone |-> FALSE, v |-> Clamp(req.speed.v)]
        /\ req.speed.given = "omitted" =>
              voice_speed = [isNone |-> FALSE, v |-> 100]

\* C10 (amended): a request whose speed lies outside [0.5, 2.0] is rejected
\* by validation (422) and text_to_speech is not called for it; a speed
\* within the range is passed on unchanged, and a request that omits speed
\* is processed with speed 1.0.
C10_SpeedValidated ==
    OtherwiseAccepted =>
        /\ OutOfRange(req.speed) =>
              /\ response.status = 422
              /\ pc = "idle"
              /\ log = <<>> /\ result = NoResult /\ created = {}
        /\ (req.speed.given = "value" /\ ~OutOfRange(req.speed)) =>
              /\ response.status # 422
              /\ voice_speed = [isNone |-> FALSE, v |-> req.speed.v]
        /\ req.speed.given = "omitted" =>
              /\ response.status # 422
              /\ voice_speed = [isNone |-> FALSE, v |-> 100]

\* C10 witness: a request with speed 2.01, otherwise acceptable, was answered
\* 422.
C10_Witness ==
    /\ OtherwiseAccepted /\ OutOfRange(req.speed) /\ req.speed.v = 201
    /\ response.status = 422 /\ pc = "idle"

\* the decode attempts of the call in progress, in the order they were made
DecodeLog == SelectSeq(log, LAMBDA e : e.op = "decode")

\* the decode loop of the call in progress has been entered and left
LoopLeft ==
    /\ InVoiceToText
    /\ fmtIdx >= 1
    /\ pc \in {"v_convert", "v_fallback", "v_input", "v_google", "v_sphinx",
               "v_finally", "v_done"}

\* C11: the format candidates of the decode loop are tried in the fixed order
\* m4a, mp3, wav, ogg, webm; a candidate is attempted exactly when every
\* earlier candidate failed, so no candidate is attempted after the first
\* success, and the loop is left only after a success or after all five
C11_CandidateOrder ==
    InVoiceToText =>
        LET d == DecodeLog
        IN  /\ Len(d) <= 5
            /\ \A k \in 1..Len(d) :
                   /\ d[k].a = <<"m4a", "mp3", "wav", "ogg", "webm">>[k]
                   /\ k < Len(d) => d[k].out = "error"
            /\ pc = "v_loop" => /\ Len(d) = fmtIdx - 1
                                /\ \A k \in 1..Len(d) : d[k].out = "error"
            /\ LoopLeft => /\ Len(d) >= 1
                           /\ d[Len(d)].out = "ok" \/ Len(d) = 5

\* m4a and mp3 failed, wav succeeded, the call has ended
C11_Witness ==
    /\ InVoiceToText
    /\ pc = "v_done"
    /\ Len(DecodeLog) = 3
    /\ DecodeLog[3].out = "ok"

\* the call in progress is past the point where the input stage is attempted
PastInput ==
    /\ InVoiceToText
    /\ pc \in {"v_google", "v_sphinx", "v_finally", "v_done"}
    /\ temp # NoPath

\* the write of the raw bytes to the .wav path in the handler of lines 90-94
\* failed with an I/O error
LastResortWriteFailed == exc.cls = "OSError"

\* no candidate of the loop gave a segment, or the export of the segment failed
DecodeOrExportFailed ==
    \/ \A i \in LogAt("decode") : log[i].out = "error"
    \/ \E i \in LogAt("export") : log[i].out = "error"

NoiseCallEnded ==
    /\ InVoiceToText /\ pc = "v_done"
    /\ language = "en"
    /\ Len(DecodeLog) = 5
    /\ \A k \in 1..5 : DecodeLog[k].out = "error"
    /\ \E i \in LogAt("input") : log[i].a = "raw" /\ log[i].out = "error"

\* C13 as claimed: for a blob that no candidate can interpret and that is not
\* a readable canonical audio file, with language 'en', voice_to_text fails
\* with the unintelligible-audio error 'Could not understand the audio'.
C13_NoiseIsUnintelligible ==
    NoiseCallEnded => result = Raised(UnintelligibleError)

\* C13 (amended): for such a blob voice_to_text fails with the conversion
\* failure 'Voice to text conversion failed: ...' of the input stage that
\* could not open the file; no recognition backend is called and the error
\* is not the unintelligible-audio error.
C13_NoiseIsConversionFailure ==
    NoiseCallEnded =>
        /\ result.kind = "raise"
        /\ result.msg = <<"Voice to text conversion failed: ",
                          "Audio file could not be read">>
        /\ result # Raised(UnintelligibleError)
        /\ LogAt("recognize_google") = {}
        /\ LogAt("recognize_sphinx") = {}

\* such a call has ended
C13_Witness == NoiseCallEnded /\ result.kind = "raise"

\* The running or last request is one of the three POST requests.
InPost == req.endpoint \in {"voice-to-text", "speech-to-text", "text-to-speech"}

\* The request names a language outside the supported set, or is an upload
\* whose content type is missing or does not start with 'audio/'.
Refusable ==
    /\ InPost
    /\ \/ ~Supported(req.language)
       \/ req.endpoint = "speech-to-text" /\ ~AudioContentType(req.ctype)

\* The request passes the validation of its schema (schemas.py:47, 76-78);
\* the form fields of an upload are not constrained.
SchemaValid ==
    CASE req.endpoint = "voice-to-text" -> LanguageFieldValid(req.language)
      [] req.endpoint = "text-to-speech" ->
            /\ LanguageFieldValid(req.language)
            /\ TextFieldValid(req.text)
            /\ SpeedFieldValid(req.speed)
      [] OTHER -> TRUE

\* No step of either service method has run for the request.
ServiceNotInvoked ==
    /\ pc = "idle"
    /\ log = <<>>
    /\ temp = NoPath
    /\ created = {}

\* C14 as claimed: the service is never invoked for a request whose language
\* is not supported, nor for an upload whose content type is missing or not
\* 'audio/'-prefixed; such a request is answered with HTTP 400.
C14_RefusedWith400 ==
    Refusable => ServiceNotInvoked /\ response.status = 400

\* C14 (amended): the service is never invoked for such a request; it is
\* answered with HTTP 400 when it passes the validation of its schema and
\* with HTTP 422 when it does not, and never with 500.
C14_RefusedBeforeService ==
    Refusable =>
        /\ ServiceNotInvoked
        /\ response.status = IF SchemaValid THEN 400 ELSE 422
        /\ SchemaValid =>
              response.detail \in {<<"Unsupported language: ", req.language>>,
                                   <<"File must be an audio file">>}

\* an upload in a supported language whose content type is not audio
C14_Witness ==
    /\ req.endpoint = "speech-to-text"
    /\ Supported(req.language)
    /\ req.ctype = [isNone |-> FALSE, v |-> <<"application/", "audio">>]
    /\ response.status = 400

\* The handler in progress is inside a call of an external backend:
\* recognize_google (line 109), recognize_sphinx (line 118) or tts.save
\* (line 179).  Handlers and service methods are coroutines that make these
\* calls directly, without awaiting, on the one event loop main.py:69 starts.
InBackendCall == pc \in {"v_google", "v_sphinx", "t_save"}

\* Another request starts being handled.
StartRequest ==
    ReceiveVoiceToText \/ ReceiveSpeechToText \/ ReceiveTextToSpeech \/ GetAudioFile

\* C15: while one request is inside a blocking call of a recognition or
\* synthesis backend, an unrelated concurrent request can start (and go on to
\* complete) before that call returns.
C15_BackendCallDoesNotBlock ==
    (InBackendCall /\ served < MaxRequests) => ENABLED StartRequest

\* The file that GET /api/v1/audio/... serves for a returned URL.
FileOf(link) == ServedPath(RouteFilename(link))

\* C16: after any sequence of successful text_to_speech calls, every returned
\* URL /api/v1/audio/<id>.mp3 names a file that exists in the audio output
\* directory, still holds the audio that call exported (each call uses a
\* fresh identifier, so no call overwrites another's artifact) and is what
\* get_audio_file serves; get_audio_file answers a name that has no stored
\* file with 404.
C16_ReturnedUrlsServed ==
    /\ \A i \in 1..Len(issued) :
          /\ issued[i].link[1] = "/api/v1/audio/"
          /\ RouteFilename(issued[i].link).suffix = ".mp3"
          /\ Exists(fs, FileOf(issued[i].link))
          /\ fs[FileOf(issued[i].link)] = Content("mp3", issued[i].duration)
          /\ \A j \in 1..Len(issued) : i # j => issued[i].link # issued[j].link
    /\ (req.endpoint = "audio") =>
          /\ pc = "idle"
          /\ IF Exists(fs, ServedPath(req.filename))
             THEN /\ response.status = 200
                  /\ response.body.url = ServedPath(req.filename)
                  /\ response.body.duration = fs[ServedPath(req.filename)].len
             ELSE response.status = 404
          /\ (\E i \in 1..Len(issued) : RouteFilename(issued[i].link) = req.filename)
                => response.status = 200

\* two successful calls have returned two URLs
C16_Witness ==
    /\ Len(issued) = 2
    /\ pc = "idle"
    /\ issued[1].duration # issued[2].duration

\* the URL a call returned has been fetched
C16_Fetched ==
    /\ Len(issued) = 1
    /\ req.endpoint = "audio"
    /\ req.filename = RouteFilename(issued[1].link)
    /\ response.status = 200

\* C17: the primary backend is called with the mapped locale of the request's
\* language, and the offline backend is called with the caller's unmapped
\* language code (e.g. 'hi', not 'hi-IN').
C17_OfflineGetsUnmappedCode ==
    InVoiceToText =>
        /\ \A i \in LogAt("recognize_google") :
              log[i].a = GetRecognitionLanguageCode(language)
        /\ \A i \in LogAt("recognize_sphinx") : log[i].a = language

\* The decode loop is about to try candidate fmtIdx, after fmtIdx - 1 failures.
BetweenCandidates == InVoiceToText /\ pc = "v_loop" /\ fmtIdx \in 2..Len(Formats)

\* C18 as claimed: each candidate attempt uses a temporary file of its own,
\* and the file of a failed attempt is deleted before the next candidate is
\* attempted.
C18_OwnFilePerCandidate ==
    BetweenCandidates =>
        /\ CandidateFile(temp, fmtIdx) # CandidateFile(temp, fmtIdx - 1)
        /\ ~Exists(fs, CandidateFile(temp, fmtIdx - 1))

\* C18 (amended): every candidate attempt reads the same temporary file, the
\* .raw file written once before the loop; the call creates no other file
\* than it and the .wav file, and both exist from the loop until the finally
\* block, so nothing is deleted between two attempts.
C18_SharedRawFile ==
    /\ (InVoiceToText /\ pc = "v_loop") =>
          \A k \in 1..Len(Formats) :
              /\ CandidateFile(temp, k) = RawPath(temp)
              /\ Exists(fs, CandidateFile(temp, k))
              /\ fs[CandidateFile(temp, k)] = Content("raw", 0)
    /\ (InVoiceToText /\ fmtIdx >= 1 /\ pc # "v_done" /\ pc # "idle") =>
          /\ created = {temp, RawPath(temp)}
          /\ \A p \in created : Exists(fs, p)

\* two candidates have failed and the third is about to read the .raw file
C18_Witness ==
    /\ BetweenCandidates
    /\ fmtIdx = 3
    /\ Exists(fs, RawPath(temp))

\* C19: whenever some candidate interprets the blob successfully, the .wav
\* file handed to the recognizer's input stage is the WAV export of that
\* candidate's decoded audio and never the raw input bytes, a decoded segment
\* of zero duration included.  (A failing export is the case of C12 and is
\* left aside here.)
C19_DecodedAudioIsExported ==
    (/\ InVoiceToText
     /\ \E j \in LogAt("decode") : log[j].out = "ok"
     /\ \A j \in LogAt("export") : log[j].out = "ok")
    => \A i \in LogAt("input") : log[i].a = "wav" /\ log[i].n = segment.len

\* The identifier of the text_to_speech call in progress or just ended: the
\* one T_Init drew last.
CallId == nextId - 1

\* C20: after a text_to_speech call that fails, at whatever step, no file for
\* that call's identifier exists in the audio output directory.
C20_NoArtifactOfFailedCall ==
    (InTextToSpeech /\ pc = "t_done" /\ result.kind = "raise" /\ CallId >= 0)
        => ~Exists(fs, AudioPath(CallId))

==============================================================================
